---------------------------- MODULE Spec2Model ----------------------------
(***************************************************************************)
(* ESPN4CC4C plan builder (bin/build_plan.py): events -> per-lane          *)
(* timelines -> plan_run / plan_slot, with sticky lanes.                   *)
(*                                                                         *)
(* Time is counted in whole ticks (one tick = a whole number of minutes);  *)
(* a datetime is the number of ticks since the epoch, so int(dt.timestamp) *)
(* is the value itself and timedelta(minutes=n) is n ticks.                *)
(***************************************************************************)
EXTENDS Integers, Sequences, FiniteSets, TLC

(***************************************************************************)
(* Bounds of the model.                                                    *)
(***************************************************************************)
\* Raw events are short (one tick) or long (MaxDur ticks).
MaxDur == 2
\* --valid-hours, in ticks.
ValidTicks == 4
\* Raw starts of event rows: from one tick before the window starts.
StartOffsets == 0..2
\* Most rows the events table holds at a time.
RowCounts == 0..2
\* build_plan.py runs in one behaviour.
BuildNumbers == 1..2
\* "now minus the grace hours" of main: one tick past an instant that is a
\* boundary of every grid in use.
StartLocal == (2 * 3) + 1

\* Identities of the rows of the events table (events.id is a primary key;
\* the order of the integers stands for the order of the id strings).
EventIds == {1, 2, 3}
\* "no row" / None for an event id or a lane id.
None == 0

Min(a, b) == IF a <= b THEN a ELSE b
Max(a, b) == IF a >= b THEN a ELSE b

Range(f) == {f[i] : i \in DOMAIN f}

(***************************************************************************)
(* Time/grid helpers.                                                      *)
(***************************************************************************)
\* iso(): the UTC ISO-8601 text of a whole-second datetime; one text per
\* instant, and a text is never an instant.
iso(dt) == <<"utc", dt>>

floor_to_step(dt, step_mins) == (dt \div step_mins) * step_mins

ceil_to_step(dt, step_mins) ==
    IF dt % step_mins = 0 THEN dt ELSE ((dt \div step_mins) + 1) * step_mins

\* The while loop of _segmentize, from t.
RECURSIVE segment_loop(_, _, _)
segment_loop(t, end_dt, step_mins) ==
    IF t < end_dt
    THEN <<<<t, Min(t + step_mins, end_dt)>>>>
            \o segment_loop(t + step_mins, end_dt, step_mins)
    ELSE <<>>

NoClipSegmentize(start_dt, end_dt, step_mins) ==
    LET RECURSIVE loop(_)
        loop(t) == IF t < end_dt
                   THEN <<<<t, t + step_mins>>>> \o loop(t + step_mins)
                   ELSE <<>>
    IN  IF start_dt >= end_dt THEN <<>> ELSE loop(ceil_to_step(start_dt, step_mins))

segmentize(start_dt, end_dt, step_mins) ==
    IF start_dt >= end_dt
    THEN <<>>
    ELSE LET s0 == floor_to_step(start_dt, step_mins)
             s  == IF s0 < start_dt THEN ceil_to_step(start_dt, step_mins) ELSE s0
         IN  segment_loop(s, end_dt, step_mins)

(***************************************************************************)
(* Event normalizer (build_plan, first loop).  An args record is the       *)
(* argument list of build_plan.                                            *)
(***************************************************************************)
\* A padding rule that looks at the replay flag alone.
PadUnlessReair(e, args) ==
    /\ (args.padding_start_mins > 0 \/ args.padding_end_mins > 0)
    /\ (~args.padding_live_only \/ e.is_reair = 0)

\* "Apply padding to live sports content, or all content if
\* padding_live_only=False"
padding_applies(e, args) ==
    /\ (args.padding_start_mins > 0 \/ args.padding_end_mins > 0)
    /\ (~args.padding_live_only \/ (e.is_reair = 0 /\ e.is_studio = 0))

\* A normalizer that clamps to the window and keeps whatever is left.
KeepAfterClamp(e, args) ==
    LET pad == padding_applies(e, args)
        s0  == IF pad THEN e.start_utc - args.padding_start_mins ELSE e.start_utc
        t0  == IF pad THEN e.stop_utc + args.padding_end_mins ELSE e.stop_utc
    IN  [keep |-> TRUE,
         ev   |-> [id |-> e.id, s |-> Max(s0, args.start_dt_utc),
                   t |-> Min(t0, args.end_dt_utc), padding_applied |-> pad,
                   original_start |-> e.start_utc, original_end |-> e.stop_utc]]

\* One event row normalized: keep says whether it survives the clamp, ev is
\* the copy with _s and _t.
normalize_one(e, args) ==
    LET pad == padding_applies(e, args)
        s0  == IF pad THEN e.start_utc - args.padding_start_mins ELSE e.start_utc
        t0  == IF pad THEN e.stop_utc + args.padding_end_mins ELSE e.stop_utc
        s   == Max(s0, args.start_dt_utc)
        t   == Min(t0, args.end_dt_utc)
    IN  [keep |-> ~(t0 <= args.start_dt_utc \/ s0 >= args.end_dt_utc) /\ ~(t <= s),
         ev   |-> [id |-> e.id, s |-> s, t |-> t, padding_applied |-> pad,
                   original_start |-> e.start_utc, original_end |-> e.stop_utc]]

RECURSIVE normalize(_, _)
normalize(events, args) ==
    IF events = <<>>
    THEN <<>>
    ELSE LET n == normalize_one(Head(events), args)
         IN  (IF n.keep THEN <<n.ev>> ELSE <<>>) \o normalize(Tail(events), args)


(***************************************************************************)
(* Interval packer (build_plan, "Assign events to lanes").                 *)
(***************************************************************************)
event_slot(cid, ev) ==
    [channel_id |-> cid, event_id |-> ev.id, start |-> ev.s, end |-> ev.t,
     kind |-> "event", placeholder_reason |-> "none"]

placeholder_slot(cid, a, b, reason) ==
    [channel_id |-> cid, event_id |-> None, start |-> a, end |-> b,
     kind |-> "placeholder", placeholder_reason |-> reason]

StartOnlyLaneFree(tl, cid, s, t) ==
    \A i \in DOMAIN tl[cid] : ~(tl[cid][i].start <= s /\ s < tl[cid][i].end)

lane_free(tl, cid, s, t) ==
    \A i \in DOMAIN tl[cid] : (t <= tl[cid][i].start \/ s >= tl[cid][i].end)

\* for cid in channels_sorted: if lane_free(...): target_cid = cid; break
RECURSIVE first_free(_, _, _, _)
first_free(tl, chans, s, t) ==
    IF chans = <<>> THEN None
    ELSE IF lane_free(tl, Head(chans), s, t) THEN Head(chans)
    ELSE first_free(tl, Tail(chans), s, t)

\* A packer that gives up on an event whose sticky lane is not in the
\* directory.
StickyLaneOrDrop(tl, channels_sorted, sticky, ev) ==
    LET preferred == sticky[ev.id]
    IN  IF preferred # None /\ preferred \notin Range(channels_sorted)
        THEN None
        ELSE IF preferred # None /\ lane_free(tl, preferred, ev.s, ev.t)
        THEN preferred
        ELSE first_free(tl, channels_sorted, ev.s, ev.t)

\* A packer that never looks at the sticky map.
IgnoreStickyTarget(tl, channels_sorted, sticky, ev) ==
    first_free(tl, channels_sorted, ev.s, ev.t)

target_cid(tl, channels_sorted, sticky, ev) ==
    LET preferred == sticky[ev.id]
    IN  IF /\ preferred # None
           /\ preferred \in Range(channels_sorted)
           /\ lane_free(tl, preferred, ev.s, ev.t)
        THEN preferred
        ELSE first_free(tl, channels_sorted, ev.s, ev.t)

\* One turn of "for ev in norm_events": the timelines after ev's turn.
place(tl, channels_sorted, sticky, ev) ==
    LET cid == target_cid(tl, channels_sorted, sticky, ev)
    IN  IF cid = None THEN tl
        ELSE [tl EXCEPT ![cid] = Append(@, event_slot(cid, ev))]

\* A packer that gives up at the first event it cannot place.
RECURSIVE PackUntilDrop(_, _, _, _)
PackUntilDrop(tl, channels_sorted, sticky, evs) ==
    IF evs = <<>> THEN tl
    ELSE IF target_cid(tl, channels_sorted, sticky, Head(evs)) = None THEN tl
    ELSE PackUntilDrop(place(tl, channels_sorted, sticky, Head(evs)),
                       channels_sorted, sticky, Tail(evs))

\* "for ev in norm_events": a dropped event leaves the timelines as they are
\* and the loop goes on.
RECURSIVE pack(_, _, _, _)
pack(tl, channels_sorted, sticky, evs) ==
    IF evs = <<>> THEN tl
    ELSE pack(place(tl, channels_sorted, sticky, Head(evs)),
              channels_sorted, sticky, Tail(evs))

empty_timelines(channels_sorted) == [cid \in Range(channels_sorted) |-> <<>>]

(***************************************************************************)
(* Sorting.  list.sort and sorted are stable; key_less(key, a, b) is       *)
(* "key(a) < key(b)" for the three sort keys build_plan uses.              *)
(***************************************************************************)
kind_rank(r) == IF r.kind = "event" THEN 0 ELSE 1

key_less(key, a, b) ==
    CASE key = "start" -> a.start < b.start
      [] key = "start_kind" ->
            \/ a.start < b.start
            \/ (a.start = b.start /\ kind_rank(a) < kind_rank(b))
      [] key = "channel_start" ->
            \/ a.channel_id < b.channel_id
            \/ (a.channel_id = b.channel_id /\ a.start < b.start)

RECURSIVE insert_sorted(_, _, _)
insert_sorted(x, sorted, key) ==
    IF sorted = <<>> THEN <<x>>
    ELSE IF key_less(key, x, sorted[Len(sorted)])
         THEN Append(insert_sorted(x, SubSeq(sorted, 1, Len(sorted) - 1), key),
                     sorted[Len(sorted)])
         ELSE Append(sorted, x)

\* Stable: an element stays behind the earlier elements with an equal key.
RECURSIVE stable_sort(_, _)
stable_sort(seq, key) ==
    IF seq = <<>> THEN <<>>
    ELSE insert_sorted(seq[Len(seq)],
                       stable_sort(SubSeq(seq, 1, Len(seq) - 1), key), key)

(***************************************************************************)
(* Gap filler (build_plan, "Add placeholders to fill gaps on grid").       *)
(***************************************************************************)
RECURSIVE as_placeholders(_, _, _)
as_placeholders(cid, segs, reason) ==
    IF segs = <<>> THEN <<>>
    ELSE <<placeholder_slot(cid, Head(segs)[1], Head(segs)[2], reason)>>
            \o as_placeholders(cid, Tail(segs), reason)

AlwaysFillGap(cid, cursor, upto, args, reason) ==
    as_placeholders(cid, segmentize(cursor, upto, args.align_minutes), reason)

\* if upto > cursor and upto - cursor >= min_gap: the placeholders of the gap
gap_slots(cid, cursor, upto, args, reason) ==
    IF upto > cursor /\ upto - cursor >= args.min_gap
    THEN as_placeholders(cid, segmentize(cursor, upto, args.align_minutes), reason)
    ELSE <<>>

\* A filler that starts every gap on the grid boundary at or before the
\* cursor instead of at the cursor.
RECURSIVE FillFromGridFloor(_, _, _, _)
FillFromGridFloor(cid, slots, cursor, args) ==
    LET from == floor_to_step(cursor, args.align_minutes)
    IN  IF slots = <<>>
        THEN gap_slots(cid, from, args.end_dt_utc, args, "tail")
        ELSE LET s == Head(slots)
             IN  gap_slots(cid, from, s.start, args, "gap") \o <<s>>
                    \o FillFromGridFloor(cid, Tail(slots), Max(cursor, s.end), args)

RECURSIVE fill_loop(_, _, _, _)
fill_loop(cid, slots, cursor, args) ==
    IF slots = <<>>
    THEN gap_slots(cid, cursor, args.end_dt_utc, args, "tail")
    ELSE LET s == Head(slots)
         IN  gap_slots(cid, cursor, s.start, args, "gap") \o <<s>>
                \o fill_loop(cid, Tail(slots), Max(cursor, s.end), args)

fill_lane(cid, slots, args) ==
    fill_loop(cid, stable_sort(slots, "start"), args.start_dt_utc, args)

fill_gaps(tl, args) == [cid \in DOMAIN tl |-> fill_lane(cid, tl[cid], args)]

(***************************************************************************)
(* Overlap clean-up (build_plan, "Safety clean-up"), one lane: the while   *)
(* loop over the lane's sorted slots, from index i.  The result is the     *)
(* slots appended to cleaned and the pairs appended to new_sticky.         *)
(***************************************************************************)
RECURSIVE clean_loop(_, _, _, _, _)
clean_loop(cid, slots, i, cleaned, new_sticky) ==
    IF i > Len(slots)
    THEN [cleaned |-> cleaned, new_sticky |-> new_sticky]
    ELSE LET current == slots[i]
             ns == IF current.kind = "event" /\ current.event_id # None
                   THEN Append(new_sticky, <<current.event_id, cid>>)
                   ELSE new_sticky
         IN  IF i + 1 <= Len(slots) /\ current.end > slots[i + 1].start
             THEN LET nxt == slots[i + 1]
                  IN  IF current.kind = "event" /\ nxt.kind = "placeholder"
                      THEN IF nxt.end <= current.end
                           THEN \* i += 1; continue
                                clean_loop(cid, slots, i + 1, cleaned, ns)
                           ELSE \* nxt["start"] = current["end"]
                                clean_loop(cid,
                                    [slots EXCEPT ![i + 1].start = current.end],
                                    i + 1, Append(cleaned, current), ns)
                      ELSE IF current.kind = "event" /\ nxt.kind = "event"
                      THEN \* keep earlier, drop later: i += 2
                           clean_loop(cid, slots, i + 2, Append(cleaned, current), ns)
                      ELSE clean_loop(cid, slots, i + 1, Append(cleaned, current), ns)
             ELSE clean_loop(cid, slots, i + 1, Append(cleaned, current), ns)

clean_lane(cid, lane_slots) ==
    clean_loop(cid, stable_sort(lane_slots, "start_kind"), 1, <<>>, <<>>)

\* for cid in channels_sorted: cleaned and new_sticky grow lane by lane.
RECURSIVE clean_up(_, _)
clean_up(tl, chans) ==
    IF chans = <<>>
    THEN [cleaned |-> <<>>, new_sticky |-> <<>>]
    ELSE LET c    == clean_lane(Head(chans), tl[Head(chans)])
             rest == clean_up(tl, Tail(chans))
         IN  [cleaned    |-> c.cleaned \o rest.cleaned,
              new_sticky |-> c.new_sticky \o rest.new_sticky]

(***************************************************************************)
(* Sticky store (event_lane) and plan storage.                             *)
(***************************************************************************)
\* The store when the database has no table event_lane: every statement on
\* it raises.
NoTable == <<>>

InsertOrIgnoreEventLane(store, event_id, channel_id) ==
    IF store[event_id] = None THEN [store EXCEPT ![event_id] = channel_id] ELSE store

\* INSERT ... ON CONFLICT(event_id) DO UPDATE SET channel_id=excluded.channel_id
upsert_event_lane(store, event_id, channel_id) ==
    [store EXCEPT ![event_id] = channel_id]

RECURSIVE upsert_all(_, _)
upsert_all(store, pairs) ==
    IF pairs = <<>> THEN store
    ELSE upsert_all(
            IF Head(pairs)[1] # None
            THEN upsert_event_lane(store, Head(pairs)[1], Head(pairs)[2])
            ELSE store,
            Tail(pairs))

\* "for eid, cid in new_sticky: if eid: _upsert_event_lane(...)" raises when
\* it reaches a statement on a store that has no table.
upsert_raises(store, pairs) ==
    /\ store = NoTable
    /\ \E i \in DOMAIN pairs : pairs[i][1] # None

\* rows_for_ck of write_plan
rows_for_ck(plan_slots) ==
    [i \in DOMAIN plan_slots |->
        [channel_id |-> plan_slots[i].channel_id,
         event_id |-> plan_slots[i].event_id,
         start |-> iso(plan_slots[i].start),
         end |-> iso(plan_slots[i].end),
         kind |-> plan_slots[i].kind,
         placeholder_reason |-> plan_slots[i].placeholder_reason]]

(***************************************************************************)
(* Inputs: the events table, the channel table and the command line.       *)
(***************************************************************************)
\* A row of the events table.  Content flags go with the identity: event 1
\* is a live game, event 2 a re-air, event 3 a studio show.
event_row(id, start, dur) ==
    [id |-> id, start_utc |-> start, stop_utc |-> start + dur,
     is_reair |-> IF id = 2 THEN 1 ELSE 0,
     is_studio |-> IF id = 3 THEN 1 ELSE 0]

\* The contents the events table can have: per identity no row or one row.
EventTables ==
    LET Times == {<<0, 0>>} \cup ({StartLocal - 2 + o : o \in StartOffsets} \X {1, MaxDur})
        Ids(f) == {i \in EventIds : f[i][2] > 0}
    IN  {{event_row(id, f[id][1], f[id][2]) : id \in Ids(f)} :
            f \in {g \in [EventIds -> Times] : Cardinality(Ids(g)) \in RowCounts}}

\* ORDER BY e.start_utc ASC: every order of the rows with ascending start;
\* rows with equal start come in the order the storage yields them.
RECURSIVE ordered_by_start(_)
ordered_by_start(rows) ==
    IF rows = {} THEN {<<>>}
    ELSE UNION {{<<r>> \o rest : rest \in ordered_by_start(rows \ {r})} :
                    r \in {x \in rows : \A y \in rows : x.start_utc <= y.start_utc}}

\* load_events(conn, start_utc, end_utc): the lists it can return.
load_events(table, start_utc, end_utc) ==
    ordered_by_start({e \in table : e.start_utc < end_utc /\ e.stop_utc > start_utc})

\* load_channels: the active rows of the channel table by chno, as ids.
ChannelDirs == {<<1>>, <<2, 1, 3>>}

\* The command lines of a deployment: --align, --min-gap-mins,
\* --padding-start-mins, --padding-end-mins and (not --padding-all).
command_line(align, min_gap_mins, pad_start, pad_end, live_only) ==
    [align |-> align, min_gap_mins |-> min_gap_mins,
     padding_start_mins |-> pad_start, padding_end_mins |-> pad_end,
     padding_live_only |-> live_only]

CommandLines ==
    {command_line(2, 1, 0, 0, TRUE), command_line(3, 2, 1, 1, TRUE),
     command_line(2, 1, 1, 1, FALSE)}

(***************************************************************************)
(* State.                                                                  *)
(***************************************************************************)
VARIABLES
    pc,           \* where build_plan.py's main is
    cli,          \* the command line the deployment builds with
    channel,      \* table channel: the active lanes by chno
    builds,       \* builds started so far
    args,         \* the arguments of the running build_plan call
    norm_events,  \* build_plan: norm_events
    packed,       \* build_plan: timelines after "Assign events to lanes"
    filled,       \* build_plan: timelines after "Add placeholders"
    plan_slots,   \* build_plan's result (snapped)
    new_sticky,   \* build_plan: new_sticky
    event_lane,   \* table event_lane: event_id -> channel_id
    plan_run,     \* table plan_run: a row per plan id 1..Len
    plan_slot,    \* table plan_slot: the rows of each plan id
    plan_meta,    \* table plan_meta: the value of key active_plan_id
    calls,        \* history: the arguments of the build_plan call behind each plan
    tx,           \* the open transaction of the builder's connection
    run,          \* history: how the last builder run ended, and the storage it found
    last_refresh_info,  \* vc_resolver: the global dict of that name
    threads       \* vc_resolver: the threads that run run_refresh, and where they are

vars == <<pc, cli, channel, builds, args, norm_events, packed, filled,
          plan_slots, new_sticky, event_lane, plan_run, plan_slot, plan_meta,
          calls, tx, run, last_refresh_info, threads>>

service == <<last_refresh_info, threads>>
durable == <<event_lane, plan_run, plan_slot, plan_meta>>
memory == <<norm_events, packed, filled, plan_slots, new_sticky>>

\* json.dumps(r, sort_keys=True): the members of the row in key order.
json_dumps(r) ==
    <<<<"channel_id", r.channel_id>>, <<"end", r.end>>, <<"event_id", r.event_id>>,
      <<"kind", r.kind>>, <<"placeholder_reason", r.placeholder_reason>>,
      <<"start", r.start>>>>

\* A digest that also takes in the time the plan is generated at.
ClockedChecksum(rows) ==
    <<iso(builds)>> \o [i \in DOMAIN rows |-> json_dumps(rows[i])]

\* sha256 over the serialized rows, one per line, taken as collision free:
\* the digest is the list of lines it was fed.
checksum_rows(rows) == [i \in DOMAIN rows |-> json_dumps(rows[i])]

NoArgs == [force_replan |-> FALSE]

\* SELECT MAX(plan_id) FROM plan_slot: the largest plan id with a slot row.
max_plan_id_in_plan_slot(ps) ==
    LET with_rows == {p \in DOMAIN ps : ps[p] # <<>>}
    IN  IF with_rows = {} THEN None
        ELSE CHOOSE p \in with_rows : \A q \in with_rows : q <= p

\* _seed_event_lane_from_latest_plan: upsert the (event, lane) pairs of the
\* event rows of the latest plan.
RECURSIVE seed_rows(_, _)
seed_rows(store, rows) ==
    IF rows = <<>> THEN store
    ELSE seed_rows(
            IF Head(rows).kind = "event" /\ Head(rows).event_id # None
            THEN upsert_event_lane(store, Head(rows).event_id, Head(rows).channel_id)
            ELSE store,
            Tail(rows))

\* An exception inside is caught ("except Exception: return 0") and the
\* store is left as it was.
seed_event_lane_from_latest_plan(store, ps) ==
    LET pid == max_plan_id_in_plan_slot(ps)
    IN  IF pid = None \/ store = NoTable THEN store ELSE seed_rows(store, ps[pid])

EmptyStickyMap == [id \in EventIds |-> None]

\* _load_event_lane_map: the rows of event_lane as a map, {} when the read
\* raises.
load_event_lane_map(store) == IF store = NoTable THEN EmptyStickyMap ELSE store

(***************************************************************************)
(* vc_resolver: the refresh job, started by the scheduler or by the manual  *)
(* trigger, each time on a thread of its own.                               *)
(***************************************************************************)
MaxThreads == 3

NoRefresh == [last_status |-> "None", last_source |-> "None"]

\* No thread exists.
NoThreads == [t \in 1..MaxThreads |-> [at |-> "none", source |-> "None"]]

(***************************************************************************)
(* Plan storage: plan_run, plan_slot and plan_meta, and the connection's   *)
(* transaction.                                                            *)
(***************************************************************************)
\* The committed plan tables as one value.
plan_tables == [plan_run |-> plan_run, plan_slot |-> plan_slot, plan_meta |-> plan_meta]

\* No transaction is open.
NoTx == [open |-> FALSE]

\* No builder has run yet.
NoRun == [outcome |-> "none"]

\* A rowid that takes the largest one in use again.
ReusedRowid(db) == Max(1, Len(db.plan_run))

\* cur.lastrowid of the plan_run insert (id INTEGER PRIMARY KEY
\* AUTOINCREMENT): one past every id handed out so far.
lastrowid(db) == Len(db.plan_run) + 1

\* A table keyed by plan id with the value v under id.
put(table, id, v) ==
    [p \in 1..Max(Len(table), id) |->
        IF p = id THEN v ELSE IF p <= Len(table) THEN table[p] ELSE <<>>]

\* INSERT INTO plan_run(generated_at_utc, valid_from_utc, valid_to_utc, ...,
\* checksum)
insert_plan_run(db, plan_id, row) ==
    [db EXCEPT !.plan_run = put(db.plan_run, plan_id, row)]

\* executemany INSERT INTO plan_slot(plan_id, ...)
insert_plan_slots(db, plan_id, rows) ==
    [db EXCEPT !.plan_slot = put(db.plan_slot, plan_id, rows)]

\* INSERT INTO plan_meta(key, value) VALUES('active_plan_id', ?) ON
\* CONFLICT(key) DO UPDATE
upsert_plan_meta(db, plan_id) == [db EXCEPT !.plan_meta = plan_id]

\* A connection that never opens a transaction by itself.
Autocommit(sql) == FALSE

\* sqlite3.connect(path) with the default isolation_level: the module
\* opens a transaction before a statement that modifies data.
in_transaction(sql) == sql \in {"INSERT", "UPDATE", "DELETE", "REPLACE"}

\* A context manager that commits however the block ends.
CommitAlways(committed, work, ok) == work

\* "with conn:" at its exit: commit when the block ended normally, roll back
\* when it raised.
conn_exit(committed, work, ok) == IF ok THEN work ELSE committed

\* The plan tables become db.
commit_tables(db) ==
    /\ plan_run' = db.plan_run
    /\ plan_slot' = db.plan_slot
    /\ plan_meta' = db.plan_meta

\* The row write_plan inserts into plan_run.
plan_run_row ==
    [generated_at_utc |-> iso(builds),
     valid_from_utc |-> iso(args.start_dt_utc),
     valid_to_utc |-> iso(args.end_dt_utc),
     checksum |-> checksum_rows(rows_for_ck(plan_slots))]

\* The process ends: its memory is gone.
process_exit ==
    /\ args' = NoArgs
    /\ norm_events' = <<>>
    /\ packed' = <<>>
    /\ filled' = <<>>
    /\ plan_slots' = <<>>
    /\ new_sticky' = <<>>
    /\ pc' = "idle"

Init ==
    /\ pc = "idle"
    /\ cli \in CommandLines
    /\ channel \in ChannelDirs
    /\ builds = 0
    /\ args = NoArgs
    /\ norm_events = <<>>
    /\ packed = <<>>
    /\ filled = <<>>
    /\ plan_slots = <<>>
    /\ new_sticky = <<>>
    /\ event_lane = EmptyStickyMap
    /\ plan_run = <<>>
    /\ plan_slot = <<>>
    /\ plan_meta = None
    /\ calls = <<>>
    /\ tx = NoTx
    /\ run = NoRun
    /\ last_refresh_info = NoRefresh
    /\ threads = NoThreads

(***************************************************************************)
(* main, from its start to the point where build_plan has computed its     *)
(* result: window, channels, events, sticky seed and map (the seed commits *)
(* on its own), then build_plan's passes over the arguments.               *)
(***************************************************************************)
main_on_table(table, numbers) ==
    /\ pc = "idle"
    /\ builds + 1 \in numbers
    /\ \E force_replan \in BOOLEAN :
         LET start_utc == floor_to_step(StartLocal, cli.align)
             end_utc   == start_utc + ValidTicks
             seeded    == IF force_replan THEN event_lane
                          ELSE seed_event_lane_from_latest_plan(event_lane, plan_slot)
         IN  \E events \in load_events(table, start_utc, end_utc) :
               LET a == [channels |-> channel,
                         events |-> events,
                         start_dt_utc |-> start_utc,
                         end_dt_utc |-> end_utc,
                         min_gap |-> cli.min_gap_mins,
                         align_minutes |-> cli.align,
                         sticky_map |-> IF force_replan THEN EmptyStickyMap
                                        ELSE load_event_lane_map(seeded),
                         padding_start_mins |-> cli.padding_start_mins,
                         padding_end_mins |-> cli.padding_end_mins,
                         padding_live_only |-> cli.padding_live_only,
                         force_replan |-> force_replan]
               IN  /\ event_lane' = seeded
                   /\ args' = a
                   \* build_plan: normalize, assign, fill, clean, sort
                   /\ norm_events' = normalize(a.events, a)
                   /\ packed' = pack(empty_timelines(a.channels), a.channels,
                                     a.sticky_map, norm_events')
                   /\ filled' = fill_gaps(packed', a)
                   /\ LET c == clean_up(filled', a.channels)
                      IN  /\ plan_slots' = stable_sort(c.cleaned, "channel_start")
                          /\ new_sticky' = c.new_sticky
    /\ builds' = builds + 1
    /\ pc' = "sticky"
    /\ UNCHANGED <<cli, channel, plan_run, plan_slot, plan_meta, calls, tx>>
    /\ UNCHANGED service

main_to_build_plan(tables, numbers) == \E table \in tables : main_on_table(table, numbers)

StartBuild == main_to_build_plan(EventTables, BuildNumbers) /\ UNCHANGED run

\* "Persist sticky hints from this build", then build_plan returns.
PersistSticky ==
    /\ pc = "sticky"
    /\ ~upsert_raises(event_lane, new_sticky)
    /\ event_lane' = upsert_all(event_lane, new_sticky)
    /\ pc' = "write"
    /\ UNCHANGED <<cli, channel, builds, args, memory, plan_run, plan_slot, plan_meta,
                   calls, tx, run>>
    /\ UNCHANGED service

\* write_plan: one transaction; then main logs plan_build_done and returns.
write_plan_and_return ==
    /\ pc = "write"
    /\ LET plan_id == lastrowid(plan_tables)
           db == upsert_plan_meta(
                    insert_plan_slots(
                        insert_plan_run(plan_tables, plan_id, plan_run_row),
                        plan_id, rows_for_ck(plan_slots)),
                    plan_id)
       IN  commit_tables(conn_exit(plan_tables, db, TRUE))
    /\ process_exit
    /\ UNCHANGED <<cli, channel, builds, event_lane, tx, run>>
    /\ UNCHANGED service

WritePlan == write_plan_and_return /\ UNCHANGED calls

Next ==
    \/ StartBuild
    \/ PersistSticky
    \/ WritePlan

Spec == Init /\ [][Next]_vars

(***************************************************************************)
(* Rebuilds: the same deployment building again and again from a small     *)
(* events table, with the arguments of every build_plan call kept in       *)
(* calls next to the plan it led to.                                       *)
(***************************************************************************)
RebuildNumbers == 1..3

\* Tables of live games and re-airs of full length that end inside the
\* window.
RebuildTables ==
    {t \in EventTables :
        \A e \in t : /\ e.id # 3
                     /\ e.stop_utc - e.start_utc = MaxDur
                     /\ e.start_utc >= StartLocal - 1}

StartRebuild == main_to_build_plan(RebuildTables, RebuildNumbers) /\ UNCHANGED run

WritePlanRecorded == write_plan_and_return /\ calls' = Append(calls, args)

NextRebuild ==
    \/ StartRebuild
    \/ PersistSticky
    \/ WritePlanRecorded

SpecRebuild == Init /\ [][NextRebuild]_vars

(***************************************************************************)
(* Builder runs at the grain of the statements of write_plan, with the     *)
(* faults a run can meet: a statement that raises, a kill of the process,  *)
(* and the external reset of the sticky store.                             *)
(***************************************************************************)
FaultNumbers == 1..2

FaultTables == {t \in RebuildTables : Cardinality(t) <= 2}

\* main starts: the run remembers the storage it found.
StartRun ==
    /\ main_to_build_plan(FaultTables, FaultNumbers)
    /\ run' = [outcome |-> "running", at |-> "none",
               event_lane |-> event_lane, tables |-> plan_tables]

\* What the connection sees: its own uncommitted work over the committed
\* tables.
work == IF tx.open THEN tx.db ELSE plan_tables

\* conn.execute(sql): the statement's effect db joins the open transaction,
\* which the connection opens first when it has to; without a transaction
\* the effect is committed at once.
execute(sql, db, plan_id) ==
    IF tx.open \/ in_transaction(sql)
    THEN /\ tx' = [open |-> TRUE, db |-> db, plan_id |-> plan_id]
         /\ UNCHANGED <<plan_run, plan_slot, plan_meta>>
    ELSE /\ tx' = [open |-> FALSE, plan_id |-> plan_id]
         /\ commit_tables(db)

\* INSERT INTO plan_run; plan_id = cur.lastrowid
InsertPlanRun ==
    /\ pc = "write"
    /\ LET plan_id == lastrowid(work)
       IN  execute("INSERT", insert_plan_run(work, plan_id, plan_run_row), plan_id)
    /\ pc' = "plan_slot"
    /\ UNCHANGED <<cli, channel, builds, args, memory, event_lane, calls, run>>
    /\ UNCHANGED service

\* executemany INSERT INTO plan_slot
InsertPlanSlots ==
    /\ pc = "plan_slot"
    /\ execute("INSERT", insert_plan_slots(work, tx.plan_id, rows_for_ck(plan_slots)),
               tx.plan_id)
    /\ pc' = "plan_meta"
    /\ UNCHANGED <<cli, channel, builds, args, memory, event_lane, calls, run>>
    /\ UNCHANGED service

\* INSERT INTO plan_meta ... ON CONFLICT(key) DO UPDATE
UpsertPlanMeta ==
    /\ pc = "plan_meta"
    /\ execute("INSERT", upsert_plan_meta(work, tx.plan_id), tx.plan_id)
    /\ pc' = "commit"
    /\ UNCHANGED <<cli, channel, builds, args, memory, event_lane, calls, run>>
    /\ UNCHANGED service

\* The "with conn:" block ends normally; write_plan and main return.
Commit ==
    /\ pc = "commit"
    /\ commit_tables(conn_exit(plan_tables, work, TRUE))
    /\ tx' = NoTx
    /\ process_exit
    /\ run' = [run EXCEPT !.outcome = "done"]
    /\ UNCHANGED <<cli, channel, builds, event_lane, calls>>
    /\ UNCHANGED service

\* A statement of write_plan raises: the "with conn:" block ends with the
\* exception, nothing in main catches it, and the process ends.
WriteFails ==
    /\ pc \in {"write", "plan_slot", "plan_meta"}
    /\ commit_tables(conn_exit(plan_tables, work, FALSE))
    /\ tx' = NoTx
    /\ process_exit
    /\ run' = [run EXCEPT !.outcome = "write_failed", !.at = pc]
    /\ UNCHANGED <<cli, channel, builds, event_lane, calls>>
    /\ UNCHANGED service

\* The process is killed: what its connection had not committed is gone.
Kill ==
    /\ pc # "idle"
    /\ tx' = NoTx
    /\ process_exit
    /\ run' = [run EXCEPT !.outcome = "killed", !.at = pc]
    /\ UNCHANGED <<cli, channel, builds, durable, calls>>
    /\ UNCHANGED service

\* clear_sticky.py between two runs: DELETE FROM event_lane
ClearSticky ==
    /\ pc = "idle"
    /\ event_lane # EmptyStickyMap
    /\ event_lane' = EmptyStickyMap
    /\ UNCHANGED <<pc, cli, channel, builds, args, memory, plan_run, plan_slot,
                   plan_meta, calls, tx, run>>
    /\ UNCHANGED service

NextFaults ==
    \/ StartRun
    \/ PersistSticky
    \/ InsertPlanRun
    \/ InsertPlanSlots
    \/ UpsertPlanMeta
    \/ Commit
    \/ WriteFails
    \/ Kill
    \/ ClearSticky

SpecFaults == Init /\ [][NextFaults]_vars

(***************************************************************************)
(* The safety clean-up pass of build_plan on its own: a single lane whose  *)
(* timeline is any short slot list in start order.                         *)
(***************************************************************************)
MaxSlots == 3

ResolverTicks == 1..4

ResolverSlots ==
    {event_slot(1, [id |-> id, s |-> a, t |-> b]) :
        id \in {1, 2}, a \in ResolverTicks, b \in ResolverTicks}
    \cup {placeholder_slot(1, a, b, "gap") : a \in ResolverTicks, b \in ResolverTicks}

ResolverInputs ==
    UNION {{l \in [1..n -> {x \in ResolverSlots : x.start < x.end}] :
                \A i \in 1..(n - 1) : l[i].start <= l[i + 1].start} : n \in 1..MaxSlots}

InitResolver ==
    /\ pc = "clean_up"
    /\ cli = command_line(2, 1, 0, 0, TRUE)
    /\ channel = <<1>>
    /\ builds = 1
    /\ args = [channels |-> channel, force_replan |-> FALSE]
    /\ norm_events = <<>>
    /\ packed = <<>>
    /\ filled \in {<<l>> : l \in ResolverInputs}
    /\ plan_slots = <<>>
    /\ new_sticky = <<>>
    /\ event_lane = EmptyStickyMap
    /\ plan_run = <<>>
    /\ plan_slot = <<>>
    /\ plan_meta = None
    /\ calls = <<>>
    /\ tx = NoTx
    /\ run = NoRun
    /\ last_refresh_info = NoRefresh
    /\ threads = NoThreads

\* build_plan from "Safety clean-up" to the final sort.
CleanUp ==
    /\ pc = "clean_up"
    /\ LET c == clean_up(filled, args.channels)
       IN  /\ plan_slots' = stable_sort(c.cleaned, "channel_start")
           /\ new_sticky' = c.new_sticky
    /\ pc' = "cleaned"
    /\ UNCHANGED <<cli, channel, builds, args, norm_events, packed, filled, durable, calls,
                   tx, run>>
    /\ UNCHANGED service

NextResolver == CleanUp

SpecResolver == InitResolver /\ [][NextResolver]_vars

(***************************************************************************)
(* Properties.  Built: build_plan has computed its result and main has not *)
(* returned, so the arguments and every pass's result are in memory.       *)
(***************************************************************************)
Built == pc \in {"sticky", "write"}

Lanes == IF Built THEN Range(args.channels) ELSE {}

\* [a, b) and [c, d) share an instant.
Overlap(a, b, c, d) == a < d /\ c < b

SlotsOverlap(x, y) == Overlap(x.start, x.end, y.start, y.end)

\* The slots of a list that are on a lane, ordered by start.
OnLane(slots, lane) ==
    stable_sort(SelectSeq(slots, LAMBDA r : r.channel_id = lane), "start")

\* The position of the event with identity id in norm_events (0: not there).
Turn(id) ==
    IF \E k \in DOMAIN norm_events : norm_events[k].id = id
    THEN CHOOSE k \in DOMAIN norm_events : norm_events[k].id = id
    ELSE 0

\* The lane the packer put normalized event k on (None: dropped).
PackedLane(k) ==
    IF \E lane \in Lanes : \E i \in DOMAIN packed[lane] :
            packed[lane][i].event_id = norm_events[k].id
    THEN CHOOSE lane \in Lanes : \E i \in DOMAIN packed[lane] :
            packed[lane][i].event_id = norm_events[k].id
    ELSE None

\* At the turn of normalized event k, lane holds a slot overlapping it.
BusyAtTurn(lane, k) ==
    \E i \in DOMAIN packed[lane] :
        /\ Turn(packed[lane][i].event_id) < k
        /\ Overlap(packed[lane][i].start, packed[lane][i].end,
                   norm_events[k].s, norm_events[k].t)

\* The first lane in channel-number order that is free at k's turn.
FirstFreeAtTurn(k) ==
    LET free == {i \in DOMAIN args.channels : ~BusyAtTurn(args.channels[i], k)}
    IN  IF free = {} THEN None
        ELSE args.channels[CHOOSE i \in free : \A j \in free : i <= j]

\* C1: in the plan build_plan returns, on every lane, the slots ordered by
\* start satisfy slot[i].end <= slot[i+1].start.
C1_NoOverlapInPlan ==
    Built =>
        \A lane \in Lanes :
            LET slots == OnLane(plan_slots, lane)
            IN  \A i \in 1..(Len(slots) - 1) : slots[i].end <= slots[i + 1].start

\* A lane of the plan holds an event between two placeholders that touch it.
C1_Witness ==
    /\ Built
    /\ \E lane \in Lanes :
         LET slots == OnLane(plan_slots, lane)
         IN  \E i \in 2..(Len(slots) - 1) :
                /\ slots[i].kind = "event"
                /\ slots[i - 1].kind = "placeholder" /\ slots[i - 1].end = slots[i].start
                /\ slots[i + 1].kind = "placeholder" /\ slots[i + 1].start = slots[i].end

\* C2: after the packing step every normalized event is on at most one lane
\* (in at most one slot), and no lane holds two intervals that overlap.
C2_PackedDisjoint ==
    Built =>
        /\ \A k \in DOMAIN norm_events :
             Cardinality({<<lane, i>> \in Lanes \X (1..Len(norm_events)) :
                            /\ i \in DOMAIN packed[lane]
                            /\ packed[lane][i].event_id = norm_events[k].id}) <= 1
        /\ \A lane \in Lanes : \A i, j \in DOMAIN packed[lane] :
             i # j => ~SlotsOverlap(packed[lane][i], packed[lane][j])

\* Two events overlapping in time were packed, on two lanes.
C2_Witness ==
    /\ Built
    /\ \E j, k \in DOMAIN norm_events :
         /\ j # k
         /\ Overlap(norm_events[j].s, norm_events[j].t, norm_events[k].s, norm_events[k].t)
         /\ PackedLane(j) # None /\ PackedLane(k) # None
         /\ PackedLane(j) # PackedLane(k)

\* The lane of event id in the plan the previous build wrote (None: no
\* previous build, or the event has no slot in its plan).
PrevLane(id) ==
    IF plan_slot = <<>> THEN None
    ELSE LET rows == plan_slot[Len(plan_slot)]
             hit  == {i \in DOMAIN rows : rows[i].kind = "event" /\ rows[i].event_id = id}
         IN  IF hit = {} THEN None ELSE rows[CHOOSE i \in hit : TRUE].channel_id

\* C3: sticky preservation.  In a build that uses the sticky map (one run
\* without --force-replan), an event that the previous build placed on lane L
\* is placed on L again when, at its turn, L is a lane of the directory that
\* holds no slot overlapping the event's interval; whether a lane earlier in
\* channel order is free too does not matter.
C3_StickyPreserved ==
    (Built /\ ~args.force_replan) =>
        \A k \in DOMAIN norm_events :
            LET L == PrevLane(norm_events[k].id)
            IN  (L # None /\ L \in Lanes /\ ~BusyAtTurn(L, k)) => PackedLane(k) = L

\* An event stays on its lane of the previous plan although the first lane
\* in channel order is free at its turn.
C3_Witness ==
    /\ Built /\ ~args.force_replan
    /\ \E k \in DOMAIN norm_events :
         LET L == PrevLane(norm_events[k].id)
         IN  /\ L # None /\ L \in Lanes
             /\ L # args.channels[1]
             /\ ~BusyAtTurn(args.channels[1], k)
             /\ ~BusyAtTurn(L, k)
             /\ PackedLane(k) = L

\* C4: sticky reassignment.  An event whose recorded sticky lane is busy
\* during its interval at its turn is placed on the first lane in
\* channel-number order that is free for its interval (when there is one),
\* and once build_plan has returned the sticky store maps the event to that
\* lane.
C4_StickyReassigned ==
    Built =>
        \A k \in DOMAIN norm_events :
            LET L == args.sticky_map[norm_events[k].id]
                F == FirstFreeAtTurn(k)
            IN  (L # None /\ L \in Lanes /\ BusyAtTurn(L, k) /\ F # None) =>
                    /\ PackedLane(k) = F
                    /\ (pc = "write" => event_lane[norm_events[k].id] = F)

\* build_plan has returned; an event found its sticky lane busy and the
\* store now names the lane it was moved to.
C4_Witness ==
    /\ pc = "write"
    /\ \E k \in DOMAIN norm_events :
         LET L == args.sticky_map[norm_events[k].id]
         IN  /\ L # None /\ L \in Lanes /\ BusyAtTurn(L, k)
             /\ PackedLane(k) # None /\ PackedLane(k) # L
             /\ event_lane[norm_events[k].id] = PackedLane(k)

\* C5: the packer places events in ascending order of normalized start,
\* ties broken by ascending identity, whatever the order of the input list:
\* of two events with the same start and no sticky entries, alone on a
\* directory of two or more free lanes, the lower identity gets the first
\* lane and the higher identity the second.
C5_TieBrokenByIdentity ==
    (Built /\ Len(norm_events) = 2 /\ Len(args.channels) >= 2) =>
        \A j, k \in DOMAIN norm_events :
            (/\ norm_events[j].s = norm_events[k].s
             /\ norm_events[j].id < norm_events[k].id
             /\ args.sticky_map[norm_events[j].id] = None
             /\ args.sticky_map[norm_events[k].id] = None) =>
                /\ PackedLane(j) = args.channels[1]
                /\ PackedLane(k) = args.channels[2]

\* C7: every event slot of the plan starts at its event's normalized start
\* floored to the alignment step and ends at the normalized end ceiled to
\* it (so it contains the normalized interval).
C7_EventsSnappedToGrid ==
    Built =>
        \A i \in DOMAIN plan_slots :
            plan_slots[i].kind = "event" =>
                LET ev == norm_events[Turn(plan_slots[i].event_id)]
                IN  /\ plan_slots[i].start = floor_to_step(ev.s, args.align_minutes)
                    /\ plan_slots[i].end = ceil_to_step(ev.t, args.align_minutes)

\* Instant t of lane is inside a slot of the list.
Covered(slots, lane, t) ==
    \E i \in DOMAIN slots :
        slots[i].channel_id = lane /\ slots[i].start <= t /\ t < slots[i].end

CoveredBy(slots, lane, t, kind) ==
    \E i \in DOMAIN slots :
        /\ slots[i].channel_id = lane /\ slots[i].kind = kind
        /\ slots[i].start <= t /\ t < slots[i].end

\* [a, b) is a gap of the lane: a maximal interval of the window that no
\* event of the lane covers (from the cursor to the next event start, or to
\* the window end).
IsGap(lane, a, b) ==
    /\ args.start_dt_utc <= a /\ a < b /\ b <= args.end_dt_utc
    /\ \A t \in a..(b - 1) : ~CoveredBy(packed[lane], lane, t, "event")
    /\ (a = args.start_dt_utc \/ CoveredBy(packed[lane], lane, a - 1, "event"))
    /\ (b = args.end_dt_utc \/ CoveredBy(packed[lane], lane, b, "event"))

Instants == IF Built THEN args.start_dt_utc..args.end_dt_utc ELSE {}

\* Where a gap of the lane can start: the window start and the event ends;
\* and where it can end: the event starts and the window end.
GapStarts(lane) ==
    {args.start_dt_utc} \cup {packed[lane][i].end : i \in DOMAIN packed[lane]}

GapEnds(lane) ==
    {args.end_dt_utc} \cup {packed[lane][i].start : i \in DOMAIN packed[lane]}

\* C8: window coverage modulo min_gap.  On every lane of the plan every
\* interval of the window that no slot covers is shorter than min_gap, and
\* a gap of length >= min_gap is covered by placeholders from end to end.
C8_CoveredModuloMinGap ==
    Built =>
        \A lane \in Lanes : \A a, b \in Instants :
            /\ (a < b /\ \A t \in a..(b - 1) : ~Covered(plan_slots, lane, t))
                    => b - a < args.min_gap
            /\ (IsGap(lane, a, b) /\ b - a >= args.min_gap)
                    => \A t \in a..(b - 1) : CoveredBy(plan_slots, lane, t, "placeholder")

\* C9: gap suppression.  A gap strictly shorter than min_gap gets no
\* placeholder: no placeholder of the gap filler's output, nor of the plan,
\* shares an instant with it.
C9_ShortGapNotFilled ==
    Built =>
        \A lane \in Lanes : \A a \in GapStarts(lane), b \in GapEnds(lane) :
            (IsGap(lane, a, b) /\ b - a < args.min_gap) =>
                /\ \A i \in DOMAIN filled[lane] :
                     filled[lane][i].kind = "placeholder" =>
                        ~Overlap(filled[lane][i].start, filled[lane][i].end, a, b)
                /\ \A i \in DOMAIN plan_slots :
                     (plan_slots[i].channel_id = lane /\ plan_slots[i].kind = "placeholder") =>
                        ~Overlap(plan_slots[i].start, plan_slots[i].end, a, b)

\* A lane has a gap shorter than min_gap that starts on a grid boundary,
\* and a longer gap that was filled.
C9_Witness ==
    /\ Built
    /\ \E lane \in Lanes : \E a, b \in Instants :
         /\ IsGap(lane, a, b) /\ b - a < args.min_gap
         /\ a % args.align_minutes = 0
         /\ \E i \in DOMAIN plan_slots :
              plan_slots[i].channel_id = lane /\ plan_slots[i].kind = "placeholder"

\* The arguments build_plan's result is computed from.
SameInputs(a, b) ==
    /\ a.events = b.events
    /\ a.channels = b.channels
    /\ a.sticky_map = b.sticky_map
    /\ a.start_dt_utc = b.start_dt_utc /\ a.end_dt_utc = b.end_dt_utc
    /\ a.min_gap = b.min_gap /\ a.align_minutes = b.align_minutes
    /\ a.padding_start_mins = b.padding_start_mins
    /\ a.padding_end_mins = b.padding_end_mins
    /\ a.padding_live_only = b.padding_live_only

\* C6: determinism.  Two builds of a history that were given the same
\* event list, lane directory, sticky map and build parameters stored the
\* same slot rows and the same checksum; and two plans with the same slot
\* rows have the same checksum, whatever their plan ids and generation
\* times.
C6_Deterministic ==
    \A i, j \in DOMAIN calls :
        /\ SameInputs(calls[i], calls[j]) =>
                /\ plan_slot[i] = plan_slot[j]
                /\ plan_run[i].checksum = plan_run[j].checksum
        /\ plan_slot[i] = plan_slot[j] => plan_run[i].checksum = plan_run[j].checksum

\* Two plans with different ids and generation times were built from the
\* same inputs, with a sticky entry for an event of the list, and hold
\* event rows.
C6_Witness ==
    \E i, j \in DOMAIN calls :
        /\ i < j
        /\ plan_run[i].generated_at_utc # plan_run[j].generated_at_utc
        /\ SameInputs(calls[i], calls[j])
        /\ \E k \in DOMAIN calls[i].events :
              calls[i].sticky_map[calls[i].events[k].id] # None
        /\ \E r \in DOMAIN plan_slot[i] : plan_slot[i][r].kind = "event"

\* The lane's list as the clean-up pass sorts it: by start, events first.
ResolverInput == stable_sort(filled[1], "start_kind")

EventThenPlaceholder(i) ==
    /\ i + 1 <= Len(ResolverInput)
    /\ ResolverInput[i].kind = "event"
    /\ ResolverInput[i + 1].kind = "placeholder"
    /\ ResolverInput[i].end > ResolverInput[i + 1].start
    /\ \A j \in 1..(i - 1) : ResolverInput[j].end <= ResolverInput[i].start

WholePlan(p) ==
    /\ p \in DOMAIN plan_run
    /\ p \in DOMAIN plan_slot
    /\ plan_run[p] # <<>>
    /\ plan_run[p].checksum = checksum_rows(plan_slot[p])

\* C13: at every point of a run, a kill at any step included, what a reader
\* finds committed is never a partly written plan: either no plan at all, or
\* only whole plans with the active-plan pointer on the last of them; and
\* until the run's transaction commits it is the storage the run found.
C13_NoPartialPlanVisible ==
    /\ \/ plan_meta = None /\ plan_run = <<>> /\ plan_slot = <<>>
       \/ /\ plan_meta = Len(plan_run)
          /\ Len(plan_slot) = Len(plan_run)
          /\ \A p \in 1..Len(plan_run) : WholePlan(p)
    /\ (pc # "idle" \/ run.outcome = "killed") => plan_tables = run.tables

\* A run is killed with all three statements of the write uncommitted, while
\* an earlier plan is active.
C13_Witness ==
    /\ run.outcome = "killed"
    /\ run.at = "commit"
    /\ plan_meta = 1


\* C14: when a statement of the plan write raises (the plan record insert, the
\* slot inserts or the pointer update), the whole write is rolled back: the
\* plan_run rows, the plan_slot rows and the active-plan pointer are those
\* the run found.
C14_FailedWriteRolledBack ==
    run.outcome = "write_failed" =>
        /\ plan_run = run.tables.plan_run
        /\ plan_slot = run.tables.plan_slot
        /\ plan_meta = run.tables.plan_meta

\* The pointer update fails after the plan record and the slots were
\* inserted, while an earlier plan is active.
C14_Witness ==
    /\ run.outcome = "write_failed"
    /\ run.at = "plan_meta"
    /\ plan_meta = 1
    /\ plan_slot[1] # <<>>


\* C15: a run that ends successfully adds one plan under an id no earlier plan
\* has, leaves the plan record and the slot rows of every earlier plan as
\* they were, and moves the active-plan pointer to the new id.
C15_EarlierPlansUntouched ==
    [][(run.outcome = "running" /\ run'.outcome = "done") =>
          /\ plan_meta' \notin DOMAIN plan_run
          /\ plan_meta' \notin DOMAIN plan_slot
          /\ DOMAIN plan_run' = DOMAIN plan_run \cup {plan_meta'}
          /\ DOMAIN plan_slot' = DOMAIN plan_slot \cup {plan_meta'}
          /\ \A p \in DOMAIN plan_run : plan_run'[p] = plan_run[p]
          /\ \A p \in DOMAIN plan_slot : plan_slot'[p] = plan_slot[p]]_vars

\* A second successful run has written a plan different from the first.
C15_Witness ==
    /\ run.outcome = "done"
    /\ plan_meta = 2
    /\ plan_slot[1] # plan_slot[2]
    /\ \E i \in DOMAIN plan_slot[1] : plan_slot[1][i].kind = "event"


\* C16: every durable change of a run commits with the plan: when the plan
\* write fails, or the process stops before the plan commits, the sticky
\* store holds exactly the entries it held before the run.
C16_StickyCommittedWithPlan ==
    run.outcome \in {"write_failed", "killed"} => event_lane = run.event_lane


\* C17: a run with the force-replan override places its events without the
\* stored sticky map and leaves the sticky store as it found it.
C17_ForceReplanLeavesStore ==
    (pc \in {"sticky", "write"} /\ args.force_replan) =>
        /\ packed = pack(empty_timelines(channel), channel, EmptyStickyMap, norm_events)
        /\ event_lane = run.event_lane


\* The lane of the event slot of id among rows, None without one.
SlotLane(rows, id) ==
    IF \E i \in DOMAIN rows : rows[i].kind = "event" /\ rows[i].event_id = id
    THEN LET i == CHOOSE j \in DOMAIN rows :
                      rows[j].kind = "event" /\ rows[j].event_id = id
         IN  rows[i].channel_id
    ELSE None

\* C18: when a run ends successfully, the sticky store maps every event with
\* an event slot in the plan just written to the lane of that slot, the
\* entry of every other identity is what it was before the run, and no entry
\* was removed.
C18_StickyFollowsPlan ==
    [][(run.outcome = "running" /\ run'.outcome = "done") =>
          \A id \in EventIds :
              LET lane == SlotLane(plan_slot'[plan_meta'], id)
              IN  /\ lane # None => event_lane'[id] = lane
                  /\ lane = None => event_lane'[id] = run.event_lane[id]
                  /\ run.event_lane[id] # None => event_lane'[id] # None]_vars


(***************************************************************************)
(* One run of the builder over an events table that also holds rows        *)
(* outside the window and rows whose stop is not after their start.        *)
(***************************************************************************)
WindowLengths == {0 - 1, 0, 1, MaxDur}

WindowStarts == {StartLocal - 3 + o : o \in 0..(ValidTicks + 3)}

\* The events table: per identity (a live game, a re-air) no row or one row.
WindowTables ==
    LET Rows(id) == {{}} \cup {{event_row(id, s, d)} : s \in WindowStarts, d \in WindowLengths}
    IN  {a \cup b : a \in Rows(1), b \in Rows(2)}

\* main starts: the run remembers the storage and the events table it found.
StartWindowRun ==
    \E table \in WindowTables :
        /\ main_on_table(table, {1})
        /\ run' = [outcome |-> "running", at |-> "none",
                   event_lane |-> event_lane, tables |-> plan_tables, events |-> table]

NextWindow ==
    \/ StartWindowRun
    \/ PersistSticky
    \/ WritePlan

SpecWindow == Init /\ [][NextWindow]_vars

\* The interval of row e after padding, by the eligibility rule.
Padded(e) ==
    LET eligible == ~args.padding_live_only \/ (e.is_reair = 0 /\ e.is_studio = 0)
    IN  IF eligible
        THEN <<e.start_utc - args.padding_start_mins, e.stop_utc + args.padding_end_mins>>
        ELSE <<e.start_utc, e.stop_utc>>

\* C19: every slot of a produced plan lies inside the build window with
\* positive length, and an event whose padded interval does not meet the
\* window, or is empty once clipped to it, has no slot in the plan.
C19_SlotsInsideWindow ==
    Built =>
        /\ \A i \in DOMAIN plan_slots :
               /\ args.start_dt_utc <= plan_slots[i].start
               /\ plan_slots[i].start < plan_slots[i].end
               /\ plan_slots[i].end <= args.end_dt_utc
        /\ \A e \in run.events :
               LET s == Padded(e)[1]
                   t == Padded(e)[2]
               IN  (\/ t <= args.start_dt_utc
                    \/ s >= args.end_dt_utc
                    \/ Min(t, args.end_dt_utc) <= Max(s, args.start_dt_utc))
                   => \A i \in DOMAIN plan_slots : plan_slots[i].event_id # e.id

\* A plan with an event clipped at the window start next to a row that lies
\* inside the window with its stop before its start.
C19_Witness ==
    /\ Built
    /\ \E e \in run.events :
           /\ e.start_utc < args.start_dt_utc
           /\ \E i \in DOMAIN plan_slots :
                  /\ plan_slots[i].event_id = e.id
                  /\ plan_slots[i].start = args.start_dt_utc
    /\ \E e \in run.events :
           /\ e.stop_utc < e.start_utc
           /\ e.start_utc < args.end_dt_utc
           /\ e.stop_utc > args.start_dt_utc


\* The normalized copy of row e, as a set: empty when the row was skipped.
Normalized(e) == {norm_events[i] : i \in {j \in DOMAIN norm_events : norm_events[j].id = e.id}}

\* C20: with non-zero lead and trail padding the normalizer moves the start
\* earlier by the lead and the end later by the trail for exactly the events
\* that are neither replay nor studio, and for every event when padding
\* applies to all; otherwise a replay or studio event keeps its own start and
\* end, up to the clipping to the window.
C20_PaddingOnlyForLive ==
    Built =>
        \A k \in DOMAIN args.events :
            LET e == args.events[k]
                live == e.is_reair = 0 /\ e.is_studio = 0
                padded == (args.padding_start_mins > 0 \/ args.padding_end_mins > 0)
                              /\ (live \/ ~args.padding_live_only)
                s == IF padded THEN e.start_utc - args.padding_start_mins ELSE e.start_utc
                t == IF padded THEN e.stop_utc + args.padding_end_mins ELSE e.stop_utc
            IN  \A n \in Normalized(e) :
                    /\ n.s = Max(s, args.start_dt_utc)
                    /\ n.t = Min(t, args.end_dt_utc)
                    /\ n.padding_applied = padded

\* Live-only padding is on: a live game inside the window was widened on
\* both sides while a studio show in the same build kept its times.
C20_Witness ==
    /\ Built
    /\ args.padding_live_only
    /\ args.padding_start_mins > 0
    /\ args.padding_end_mins > 0
    /\ \E n \in Range(norm_events) :
           /\ n.id = 1
           /\ n.s = n.original_start - args.padding_start_mins
           /\ n.t = n.original_end + args.padding_end_mins
    /\ \E n \in Range(norm_events) :
           /\ n.id = 3
           /\ n.s = n.original_start
           /\ n.t = n.original_end


(***************************************************************************)
(* Builds over a full events table: three events of full length close to   *)
(* the window start, so that a lane directory of one lane runs out.        *)
(***************************************************************************)
PackerNumbers == 1..2

PackerTables ==
    {{event_row(id, f[id], MaxDur) : id \in EventIds} :
        f \in [EventIds -> {StartLocal - 1 + o : o \in StartOffsets}]}

StartPackerBuild == main_to_build_plan(PackerTables, PackerNumbers) /\ UNCHANGED run

NextPacker ==
    \/ StartPackerBuild
    \/ PersistSticky
    \/ WritePlan

SpecPacker == Init /\ [][NextPacker]_vars

\* The lane the packing rules give normalized event k at its turn.
LaneByRule(k) ==
    LET preferred == args.sticky_map[norm_events[k].id]
    IN  IF preferred # None /\ preferred \in Lanes /\ ~BusyAtTurn(preferred, k)
        THEN preferred
        ELSE FirstFreeAtTurn(k)

\* C21: a normalized event is absent from the packer's output exactly when,
\* at its turn, every lane of the directory holds a slot overlapping it; the
\* build goes on, and every event, those after a dropped one included, is on
\* the lane the packing rules give it.
C21_DroppedIffNoLaneFree ==
    Built =>
        \A k \in DOMAIN norm_events :
            /\ PackedLane(k) = None <=> \A lane \in Lanes : BusyAtTurn(lane, k)
            /\ PackedLane(k) = LaneByRule(k)

\* An event was dropped and an event after it in the loop was placed.
C21_Witness ==
    /\ Built
    /\ \E j, k \in DOMAIN norm_events :
           /\ j < k
           /\ PackedLane(j) = None
           /\ PackedLane(k) # None


(***************************************************************************)
(* Builder runs on a database whose sticky store may be unreadable: the    *)
(* table event_lane is missing.                                            *)
(***************************************************************************)
StoreNumbers == 1..2

InitStore ==
    /\ pc = "idle"
    /\ cli \in CommandLines
    /\ channel \in ChannelDirs
    /\ builds = 0
    /\ args = NoArgs
    /\ norm_events = <<>>
    /\ packed = <<>>
    /\ filled = <<>>
    /\ plan_slots = <<>>
    /\ new_sticky = <<>>
    /\ event_lane \in {EmptyStickyMap, NoTable}
    /\ plan_run = <<>>
    /\ plan_slot = <<>>
    /\ plan_meta = None
    /\ calls = <<>>
    /\ tx = NoTx
    /\ run = NoRun
    /\ last_refresh_info = NoRefresh
    /\ threads = NoThreads

\* main starts: the run remembers the storage it found.
StartStoreRun ==
    /\ main_to_build_plan(FaultTables, StoreNumbers)
    /\ run' = [outcome |-> "running", at |-> "none",
               event_lane |-> event_lane, tables |-> plan_tables]

\* A sticky upsert raises inside build_plan: nothing catches it before
\* __main__, which logs plan_build_failed and raises again.
StickyUpsertRaises ==
    /\ pc = "sticky"
    /\ upsert_raises(event_lane, new_sticky)
    /\ process_exit
    /\ run' = [run EXCEPT !.outcome = "build_failed", !.at = pc]
    /\ UNCHANGED <<cli, channel, builds, durable, calls, tx>>
    /\ UNCHANGED service

NextStore ==
    \/ StartStoreRun
    \/ PersistSticky
    \/ StickyUpsertRaises
    \/ InsertPlanRun
    \/ InsertPlanSlots
    \/ UpsertPlanMeta
    \/ Commit

SpecStore == InitStore /\ [][NextStore]_vars

\* C22: when the sticky store cannot be read, the build works with an empty
\* sticky map and still completes: the run ends with a new plan written and
\* the active-plan pointer on it.
C22_ReadFailureNotFatal ==
    run.outcome # "none" /\ run.event_lane = NoTable =>
        /\ pc # "idle" => args.sticky_map = EmptyStickyMap
        /\ pc = "idle" =>
               /\ run.outcome = "done"
               /\ plan_meta = Len(plan_run)
               /\ plan_meta # run.tables.plan_meta


\* C23: a build without force-replan that finds the sticky store empty, as
\* clear_sticky leaves it, while earlier plans are stored, assigns its events
\* from scratch: the packed timelines are those of a build with an empty
\* sticky map.
C23_ClearedStoreStartsFromScratch ==
    (Built /\ ~args.force_replan /\ run.event_lane = EmptyStickyMap /\ plan_meta # None) =>
        packed = pack(empty_timelines(args.channels), args.channels, EmptyStickyMap,
                      norm_events)


(***************************************************************************)
(* _segmentize on its own: any interval [start_dt, end_dt) on a short time *)
(* line and any step.                                                      *)
(***************************************************************************)
SegmentTicks == 8

SegmentSteps == 3

InitSegment ==
    /\ pc = "segmentize"
    /\ cli = command_line(2, 1, 0, 0, TRUE)
    /\ channel = <<1>>
    /\ builds = 1
    /\ args \in {[start_dt |-> a, end_dt |-> b, step_mins |-> k] :
                    a \in 0..SegmentTicks, b \in 0..SegmentTicks, k \in 1..SegmentSteps}
    /\ norm_events = <<>>
    /\ packed = <<>>
    /\ filled = <<>>
    /\ plan_slots = <<>>
    /\ new_sticky = <<>>
    /\ event_lane = EmptyStickyMap
    /\ plan_run = <<>>
    /\ plan_slot = <<>>
    /\ plan_meta = None
    /\ calls = <<>>
    /\ tx = NoTx
    /\ run = NoRun
    /\ last_refresh_info = NoRefresh
    /\ threads = NoThreads

\* list(_segmentize(start_dt, end_dt, step_mins)): filled holds the chunks.
Segmentize ==
    /\ pc = "segmentize"
    /\ filled' = segmentize(args.start_dt, args.end_dt, args.step_mins)
    /\ pc' = "segmented"
    /\ UNCHANGED <<cli, channel, builds, args, norm_events, packed, plan_slots, new_sticky,
                   durable, calls, tx, run>>
    /\ UNCHANGED service

NextSegment == Segmentize

SpecSegment == InitSegment /\ [][NextSegment]_vars

\* C24: the chunks of any interval [a, b) with a < b are contiguous, start at
\* a, end at b (so they cover [a, b) exactly), have every boundary other
\* than a and b on the step grid, and are never longer than the step.
C24_SegmentsCoverInterval ==
    (pc = "segmented" /\ args.start_dt < args.end_dt) =>
        /\ filled # <<>>
        /\ filled[1][1] = args.start_dt
        /\ filled[Len(filled)][2] = args.end_dt
        /\ \A i \in 1..(Len(filled) - 1) : filled[i][2] = filled[i + 1][1]
        /\ \A i \in DOMAIN filled :
               /\ filled[i][1] < filled[i][2]
               /\ filled[i][2] - filled[i][1] <= args.step_mins
               /\ filled[i][1] # args.start_dt => filled[i][1] % args.step_mins = 0
               /\ filled[i][2] # args.end_dt => filled[i][2] % args.step_mins = 0


(***************************************************************************)
(* vc_resolver's refresh: the manual trigger and the scheduled job.  The   *)
(* builder does not move here; a refresh runs it inside its subprocess.    *)
(***************************************************************************)
builder == <<pc, cli, channel, builds, args, norm_events, packed, filled, plan_slots,
             new_sticky, event_lane, plan_run, plan_slot, plan_meta, calls, tx, run>>

InitRefresh ==
    /\ pc = "idle"
    /\ cli = command_line(2, 1, 0, 0, TRUE)
    /\ channel = <<1>>
    /\ builds = 0
    /\ args = NoArgs
    /\ norm_events = <<>>
    /\ packed = <<>>
    /\ filled = <<>>
    /\ plan_slots = <<>>
    /\ new_sticky = <<>>
    /\ event_lane = EmptyStickyMap
    /\ plan_run = <<>>
    /\ plan_slot = <<>>
    /\ plan_meta = None
    /\ calls = <<>>
    /\ tx = NoTx
    /\ run = NoRun
    /\ last_refresh_info = NoRefresh
    /\ threads = NoThreads

\* threading.Thread(target=run_refresh, kwargs={"source": source}).start(), or
\* the scheduler handing the job to a thread of its pool.
start_thread(source) ==
    \E t \in DOMAIN threads :
        /\ threads[t].at = "none"
        /\ \A u \in 1..(t - 1) : threads[u].at # "none"
        /\ threads' = [threads EXCEPT ![t] = [at |-> "run_refresh", source |-> source]]

\* POST /admin/refresh/trigger while no refresh is recorded as running.
trigger_refresh ==
    /\ last_refresh_info.last_status # "running"
    /\ start_thread("manual")
    /\ UNCHANGED <<builder, last_refresh_info>>

\* CronTrigger(hour=3, minute=0) fires refresh_job; the scheduler runs at
\* most one instance of a job at a time.
refresh_job ==
    /\ \A t \in DOMAIN threads : ~(threads[t].at # "none" /\ threads[t].source = "auto")
    /\ start_thread("auto")
    /\ UNCHANGED <<builder, last_refresh_info>>

\* run_refresh up to subprocess.run: last_status = "running".
run_refresh_begin ==
    \E t \in DOMAIN threads :
        /\ threads[t].at = "run_refresh"
        /\ last_refresh_info' = [last_status |-> "running", last_source |-> threads[t].source]
        /\ threads' = [threads EXCEPT ![t].at = "subprocess"]
        /\ UNCHANGED builder

\* subprocess.run returns or raises; run_refresh records the outcome and the
\* thread ends.
run_refresh_end ==
    \E t \in DOMAIN threads, status \in {"success", "failed", "timeout", "error"} :
        /\ threads[t].at = "subprocess"
        /\ last_refresh_info' = [last_refresh_info EXCEPT !.last_status = status]
        /\ threads' = [threads EXCEPT ![t] = [at |-> "none", source |-> "None"]]
        /\ UNCHANGED builder

NextRefresh ==
    \/ trigger_refresh
    \/ refresh_job
    \/ run_refresh_begin
    \/ run_refresh_end

SpecRefresh == InitRefresh /\ [][NextRefresh]_vars

\* C25: at most one refresh is running at any time, whatever the
\* interleaving of manual trigger requests and scheduled runs.
C25_OneRefreshAtATime ==
    Cardinality({t \in DOMAIN threads : threads[t].at = "subprocess"}) <= 1


(***************************************************************************)
(* The legacy sticky packer (contrib/legacy/build_plan_sticky2.py), from   *)
(* "pack" to the end of its loop.  An input record inp holds the arguments *)
(* of build_plan_sticky with norm already normalized and sorted by start;  *)
(* a packing state st holds free_at and timelines.                         *)
(***************************************************************************)
StickyTicks == 2

StickyLanes == {<<1>>, <<1, 2>>}

sticky_event(id, s, d) == [id |-> id, s |-> s, t |-> s + d]

\* norm after norm.sort(key=_s): up to two events, ascending start.
StickyNorms ==
    LET One(id) == {sticky_event(id, s, d) : s \in 0..StickyTicks, d \in 1..MaxDur}
    IN  {<<>>} \cup {<<e>> : e \in One(1)}
               \cup {q \in One(1) \X One(2) : q[1].s <= q[2].s}
               \cup {<<q[2], q[1]>> : q \in {r \in One(1) \X One(2) : r[2].s < r[1].s}}

StickyInputs ==
    {[lane_ids |-> l, norm |-> n, prev_event_lane |-> p, now_utc |-> 0,
      freeze_window |-> f, stick_window |-> f + 1, lane_affinity |-> a,
      start_dt_utc |-> 0, force_replan |-> FALSE] :
        l \in StickyLanes, n \in StickyNorms, p \in [{1, 2} -> {None, 1, 2}],
        f \in 0..StickyTicks, a \in 0..1}

\* timelines[lid].append((s, ev["_t"], ev.get("id"), "event"));
\* free_at[lid] = ev["_t"]
sticky_append(st, lid, s, ev) ==
    [free_at |-> [st.free_at EXCEPT ![lid] = ev.t],
     timelines |-> [st.timelines EXCEPT ![lid] =
                        Append(@, [channel_id |-> lid, event_id |-> ev.id,
                                   start |-> s, end |-> ev.t, kind |-> "event"])],
     placed |-> TRUE]

\* try_place_on(lid, ev)
try_place_on(st, lid, ev) ==
    IF st.free_at[lid] <= ev.s THEN sticky_append(st, lid, ev.s, ev)
    ELSE [st EXCEPT !.placed = FALSE]

\* affinity_order(center)
affinity_order(inp, center) ==
    LET n == Len(inp.lane_ids)
        idx == IF \E i \in 1..n : inp.lane_ids[i] = center
               THEN CHOOSE i \in 1..n : inp.lane_ids[i] = center
               ELSE 0
        RECURSIVE around(_)
        around(d) ==
            IF d > inp.lane_affinity THEN <<>>
            ELSE (IF idx - d >= 1 THEN <<inp.lane_ids[idx - d]>> ELSE <<>>)
                 \o (IF idx + d <= n THEN <<inp.lane_ids[idx + d]>> ELSE <<>>)
                 \o around(d + 1)
    IN  IF idx = 0 THEN <<>> ELSE <<center>> \o around(1)

\* "for lid in affinity_order(preferred_lane): if lid == preferred_lane:
\* continue; if try_place_on(lid, ev): placed = True; break"
RECURSIVE try_neighbors(_, _, _, _)
try_neighbors(st, order, center, ev) ==
    IF order = <<>> THEN [st EXCEPT !.placed = FALSE]
    ELSE IF Head(order) = center THEN try_neighbors(st, Tail(order), center, ev)
    ELSE IF try_place_on(st, Head(order), ev).placed THEN try_place_on(st, Head(order), ev)
    ELSE try_neighbors(st, Tail(order), center, ev)

\* The lane with the smallest free_at among those free by ev's start, the
\* first such lane in lane order (None: no lane can start by then).
start_candidate(inp, st, ev) ==
    LET can == {i \in DOMAIN inp.lane_ids : st.free_at[inp.lane_ids[i]] <= ev.s}
    IN  IF can = {} THEN None
        ELSE inp.lane_ids[CHOOSE i \in can : \A j \in can :
                \/ st.free_at[inp.lane_ids[i]] < st.free_at[inp.lane_ids[j]]
                \/ (st.free_at[inp.lane_ids[i]] = st.free_at[inp.lane_ids[j]] /\ i <= j)]

\* min(lane_ids, key=lambda k: free_at[k])
earliest_free(inp, st) ==
    inp.lane_ids[CHOOSE i \in DOMAIN inp.lane_ids : \A j \in DOMAIN inp.lane_ids :
        \/ st.free_at[inp.lane_ids[i]] < st.free_at[inp.lane_ids[j]]
        \/ (st.free_at[inp.lane_ids[i]] = st.free_at[inp.lane_ids[j]] /\ i <= j)]

\* greedy_place(ev), spill included.
greedy_place(inp, st, ev) ==
    LET candidate == start_candidate(inp, st, ev)
        cid == earliest_free(inp, st)
    IN  IF candidate # None THEN sticky_append(st, candidate, ev.s, ev)
        ELSE IF st.free_at[cid] < ev.t
             THEN sticky_append(st, cid, Max(ev.s, st.free_at[cid]), ev)
             ELSE st

\* One turn of "for ev in norm".
sticky_turn(inp, st, ev) ==
    LET in_freeze == ev.s <= inp.now_utc + inp.freeze_window
        in_stick == ev.s <= inp.now_utc + inp.stick_window
        preferred_lane == inp.prev_event_lane[ev.id]
        on_preferred ==
            IF preferred_lane \in Range(inp.lane_ids)
               /\ try_place_on(st, preferred_lane, ev).placed
            THEN try_place_on(st, preferred_lane, ev)
            ELSE try_neighbors(st, affinity_order(inp, preferred_lane), preferred_lane, ev)
        frozen ==
            IF ~on_preferred.placed /\ in_freeze /\ start_candidate(inp, st, ev) # None
            THEN sticky_append(st, start_candidate(inp, st, ev), ev.s, ev)
            ELSE on_preferred
        tried == IF preferred_lane # None /\ (in_freeze \/ in_stick)
                 THEN frozen
                 ELSE [st EXCEPT !.placed = FALSE]
    IN  IF tried.placed THEN tried ELSE greedy_place(inp, st, ev)

RECURSIVE sticky_pack(_, _, _)
sticky_pack(inp, st, evs) ==
    IF evs = <<>> THEN st
    ELSE sticky_pack(inp, sticky_turn(inp, st, Head(evs)), Tail(evs))

InitSticky ==
    /\ pc = "pack"
    /\ cli = command_line(2, 1, 0, 0, TRUE)
    /\ channel = <<1>>
    /\ builds = 1
    /\ args \in StickyInputs
    /\ norm_events = <<>>
    /\ packed = <<>>
    /\ filled = <<>>
    /\ plan_slots = <<>>
    /\ new_sticky = <<>>
    /\ event_lane = EmptyStickyMap
    /\ plan_run = <<>>
    /\ plan_slot = <<>>
    /\ plan_meta = None
    /\ calls = <<>>
    /\ tx = NoTx
    /\ run = NoRun
    /\ last_refresh_info = NoRefresh
    /\ threads = NoThreads

\* build_plan_sticky's packing loop: packed holds its timelines.
StickyPack ==
    /\ pc = "pack"
    /\ packed' = sticky_pack(args,
                             [free_at |-> [l \in Range(args.lane_ids) |-> args.start_dt_utc],
                              timelines |-> [l \in Range(args.lane_ids) |-> <<>>],
                              placed |-> FALSE],
                             args.norm).timelines
    /\ pc' = "fill"
    /\ UNCHANGED <<cli, channel, builds, args, norm_events, filled, plan_slots, new_sticky,
                   durable, calls, tx, run, service>>

NextSticky == StickyPack

SpecSticky == InitSticky /\ [][NextSticky]_vars

\* C26: in the legacy sticky packer an event that starts within the freeze
\* window of now is never spilled: it is on a lane with its full normalized
\* interval, or on no lane at all.
C26_FrozenEventNeverSpilled ==
    pc = "fill" =>
        \A k \in DOMAIN args.norm :
            LET ev == args.norm[k]
            IN  ev.s <= args.now_utc + args.freeze_window =>
                    \A l \in DOMAIN packed : \A i \in DOMAIN packed[l] :
                        packed[l][i].event_id = ev.id =>
                            packed[l][i].start = ev.s /\ packed[l][i].end = ev.t


\* Builds i and i + 1 of the history got the same events, lane directory,
\* window and parameters, both without force-replan.
SameBuildAgain(i) ==
    LET a == calls[i]
        b == calls[i + 1]
    IN  /\ Range(a.events) = Range(b.events)
        /\ a.channels = b.channels
        /\ a.start_dt_utc = b.start_dt_utc /\ a.end_dt_utc = b.end_dt_utc
        /\ a.min_gap = b.min_gap /\ a.align_minutes = b.align_minutes
        /\ a.padding_start_mins = b.padding_start_mins
        /\ a.padding_end_mins = b.padding_end_mins
        /\ a.padding_live_only = b.padding_live_only
        /\ ~a.force_replan /\ ~b.force_replan

\* C27: rebuild fixpoint.  A build that follows a build with the same
\* events, lane directory, window and parameters, on the sticky store the
\* first one left, stores exactly the same slot rows (every placed event on
\* its lane, every dropped event dropped again) and the same checksum.
C27_RebuildFixpoint ==
    \A i \in 1..(Len(calls) - 1) :
        SameBuildAgain(i) =>
            /\ plan_slot[i + 1] = plan_slot[i]
            /\ plan_run[i + 1].checksum = plan_run[i].checksum


(***************************************************************************)
(* Builds of a deployment whose lane directory may be empty: load_channels *)
(* returns no row when seed_channels_if_empty is asked for 0 lanes (or     *)
(* every row of table channel is inactive), and then build_plan returns a  *)
(* plan without slots.  The readers (vc_resolver.py and m3u_from_plan.py)  *)
(* select the plan by SELECT MAX(plan_id) FROM plan_slot.                  *)
(***************************************************************************)
ReaderNumbers == 1..2

ReaderDirs == {<<>>, <<1>>}

\* latest_plan_id(conn) of the readers.
latest_plan_id == max_plan_id_in_plan_slot(plan_slot)

InitReaders ==
    /\ pc = "idle"
    /\ cli \in CommandLines
    /\ channel \in ReaderDirs
    /\ builds = 0
    /\ args = NoArgs
    /\ norm_events = <<>>
    /\ packed = <<>>
    /\ filled = <<>>
    /\ plan_slots = <<>>
    /\ new_sticky = <<>>
    /\ event_lane = EmptyStickyMap
    /\ plan_run = <<>>
    /\ plan_slot = <<>>
    /\ plan_meta = None
    /\ calls = <<>>
    /\ tx = NoTx
    /\ run = NoRun
    /\ last_refresh_info = NoRefresh
    /\ threads = NoThreads

StartReadersBuild ==
    /\ main_to_build_plan(FaultTables, ReaderNumbers)
    /\ UNCHANGED run

NextReaders ==
    \/ StartReadersBuild
    \/ PersistSticky
    \/ WritePlan

SpecReaders == InitReaders /\ [][NextReaders]_vars

\* C28: after any sequence of successful builds the plan the readers select,
\* the largest plan_id present in plan_slot, is the plan the active-plan
\* pointer names, also when a build produced a plan with no slots.
C28_ReadersSelectActivePlan ==
    pc = "idle" /\ builds > 0 => latest_plan_id = plan_meta


\* The slots of the filled timelines, lane after lane in channel order.
RECURSIVE FilledSlots(_)
FilledSlots(chans) ==
    IF chans = <<>> THEN <<>>
    ELSE filled[Head(chans)] \o FilledSlots(Tail(chans))

\* C29: on the timelines the packer and the gap filler produce, the overlap
\* clean-up changes nothing: the plan has the very slots of the filled
\* timelines, none dropped and no boundary moved, and the pairs recorded for
\* the sticky upsert are exactly the event slots of the returned plan.
C29_CleanUpChangesNothing ==
    Built =>
        /\ Len(plan_slots) = Len(FilledSlots(args.channels))
        /\ Range(plan_slots) = Range(FilledSlots(args.channels))
        /\ Range(new_sticky) =
             {<<s.event_id, s.channel_id>> :
                 s \in {r \in Range(plan_slots) : r.kind = "event"}}


\* A build whose clean-up had work to look at: on one lane an event that
\* ends off the grid is followed by a placeholder, and the event is recorded
\* for the sticky upsert.
C29_Witness ==
    /\ Built
    /\ \E cid \in Range(args.channels) :
         \E i \in DOMAIN filled[cid] :
            /\ i + 1 \in DOMAIN filled[cid]
            /\ filled[cid][i].kind = "event"
            /\ filled[cid][i].end % args.align_minutes # 0
            /\ filled[cid][i + 1].kind = "placeholder"
            /\ <<filled[cid][i].event_id, cid>> \in Range(new_sticky)


(***************************************************************************)
(* Builds on a database whose sticky store was written while the lane      *)
(* directory had a lane that load_channels no longer returns: the channel  *)
(* row was removed or set inactive after the earlier builds.               *)
(***************************************************************************)
LaneNumbers == 1..2

\* The lane that is gone from table channel.
RemovedLane == 2

\* load_channels after the removal.
LaneDirs == {<<1>>, <<3, 1>>}

\* event_lane as the earlier builds left it.
StaleStores == [EventIds -> {None, RemovedLane}]

InitLanes ==
    /\ pc = "idle"
    /\ cli \in CommandLines
    /\ channel \in LaneDirs
    /\ builds = 0
    /\ args = NoArgs
    /\ norm_events = <<>>
    /\ packed = <<>>
    /\ filled = <<>>
    /\ plan_slots = <<>>
    /\ new_sticky = <<>>
    /\ event_lane \in StaleStores
    /\ plan_run = <<>>
    /\ plan_slot = <<>>
    /\ plan_meta = None
    /\ calls = <<>>
    /\ tx = NoTx
    /\ run = NoRun
    /\ last_refresh_info = NoRefresh
    /\ threads = NoThreads

StartLanesBuild ==
    /\ main_to_build_plan(FaultTables, LaneNumbers)
    /\ UNCHANGED run

NextLanes ==
    \/ StartLanesBuild
    \/ PersistSticky
    \/ WritePlan

SpecLanes == InitLanes /\ [][NextLanes]_vars

\* C30: an event whose recorded sticky lane is not in the lane directory is
\* packed as an event without sticky lane: it is on the first lane in channel
\* order that is free for its interval at its turn (dropped when there is
\* none), never on the missing lane, and once build_plan has returned the
\* sticky store names the lane it was put on.
C30_MissingStickyLaneIgnored ==
    Built =>
        \A k \in DOMAIN norm_events :
            LET L == args.sticky_map[norm_events[k].id]
            IN  (L # None /\ L \notin Lanes) =>
                    /\ PackedLane(k) = FirstFreeAtTurn(k)
                    /\ PackedLane(k) # L
                    /\ (pc = "write" /\ PackedLane(k) # None) =>
                           event_lane[norm_events[k].id] = PackedLane(k)

\* build_plan has returned: an event whose sticky lane is gone found the
\* first lane of the directory busy, is on a later lane, and the store names
\* that lane.
C30_Witness ==
    /\ pc = "write"
    /\ \E k \in DOMAIN norm_events :
         LET L == args.sticky_map[norm_events[k].id]
         IN  /\ L # None /\ L \notin Lanes
             /\ BusyAtTurn(args.channels[1], k)
             /\ PackedLane(k) # None
             /\ PackedLane(k) = FirstFreeAtTurn(k)
             /\ event_lane[norm_events[k].id] = PackedLane(k)

=============================================================================
